---- MODULE Spec2Model ----
(***************************************************************************)
(* Model of toolkits/matrix_factorization/make_synthetic_als_data.cpp:     *)
(* the synthetic ALS data generator.  One process executes main() from the *)
(* directory creation to the closing of the shard files; the program may   *)
(* be executed a second time on the same configuration (Rerun), which is   *)
(* how the statements about two runs are checked.                          *)
(*                                                                         *)
(* Reals are modelled by integers: latent factor components are integer    *)
(* multiples of stdev, the power-law weights (i+1)^(-alpha) are scaled by  *)
(* a common denominator, and a uniform draw in [0,1) is gen / GenModulus.  *)
(* A stream (std::ofstream) is modelled by the sequence of the records     *)
(* inserted into it.                                                       *)
(***************************************************************************)
EXTENDS Integers, Sequences, FiniteSets, TLC

\* ---- bounds of the explored configurations ----
MaxFiles == 2
MaxD == 2
MaxUsers == 4
MaxMovies == 3
MaxValidation == 2

Alphas == {0, 1, 2}
Noises == {0, 1}
Stdevs == {1, 2}

VARIABLES
  nfiles, D, nusers, nmovies, nvalidation, noise, stdev, alpha,  \* options
  pc,                \* position in main()
  run,               \* which execution of the program this is (1 or 2)
  dir_created,       \* create_directory has been called by this run
  opened,            \* shard streams this run has opened and not yet closed
  created,           \* shard files this run has created on disk
  train_files,       \* contents of the training streams, by shard index
  validation_files,  \* contents of the validation streams, by shard index
  user_factors, movie_factors,
  gen,               \* state of the shared random generator
  prob,              \* the degree distribution (cumulative, scaled)
  movie_id, user_id, out_degree,
  i,                 \* the index of the innermost running for-loop
  f,                 \* the element the running foreach is at
  degrees,           \* history: the out_degree sampled for each movie
  emitted,           \* history: every record inserted, in emission order
  draws,             \* history: every draw made from gen, in order
  prev_train, prev_validation, prev_noise  \* the outputs of the first run

vars == <<nfiles, D, nusers, nmovies, nvalidation, noise, stdev, alpha,
          pc, run, dir_created, opened, created, train_files,
          validation_files, user_factors, movie_factors, gen, prob,
          movie_id, user_id, out_degree, i, f, degrees, emitted, draws,
          prev_train, prev_validation, prev_noise>>

options == <<nfiles, D, nusers, nmovies, nvalidation, stdev, alpha>>
previous == <<prev_train, prev_validation, prev_noise>>

\* ---- the shared random generator (graphlab::random::generator) ----
GenModulus == 16
GenMultiplier == 5
GenIncrement == 3

SeedPerRun == 31413 + run
SeedValue == 31413

Seed(s) == s % GenModulus

GenNext(g) == (GenMultiplier * g + GenIncrement) % GenModulus

\* gen.gaussian(0, sd): a draw of mean 0 that scales with sd
Gaussian(g, sd) == sd * ((g % 3) - 1)

RECURSIVE Pow(_, _)
Pow(b, e) == IF e = 0 THEN 1 ELSE b * Pow(b, e - 1)

RECURSIVE Factorial(_)
Factorial(n) == IF n <= 1 THEN 1 ELSE n * Factorial(n - 1)

\* prob[k] = pow(k+1, -alpha), scaled by the common denominator (n!)^alpha
Weight(k, n, a) == Pow(Factorial(n), a) \div Pow(k + 1, a)

RECURSIVE PrefixSum(_, _, _)
PrefixSum(k, n, a) ==
  IF k < 0 THEN 0 ELSE Weight(k, n, a) + PrefixSum(k - 1, n, a)

\* pdf2cdf: the cumulative sums; the normaliser is the last element
Pdf2Cdf(n, a) == [k \in 1..n |-> PrefixSum(k - 1, n, a)]

\* gen.multinomial_cdf(cdf): the first index whose cumulative probability
\* is >= the uniform draw g / GenModulus
MultinomialCdf(g, cdf) ==
  IF Len(cdf) = 0 THEN 0
  ELSE LET Z == cdf[Len(cdf)]
           hit == {k \in 1..Len(cdf) : cdf[k] * GenModulus >= g * Z}
       IN  (CHOOSE k \in hit : \A j \in hit : k <= j) - 1

\* ---- the pure parts of main() ----
AssertGE(a, b) == a >= b
AssertGT(a, b) == a > b

StrideHi == 40503
StrideLo == 31153
StrideBase == 65536

\* 2654435761 = StrideHi * StrideBase + StrideLo, reduced modulo n
StrideMod(n) == ((StrideHi % n) * (StrideBase % n) + (StrideLo % n)) % n

AdvanceCursorEven(u, n) == (u + StrideMod(n) + 1) % n
AdvanceCursor(u, n) == (u + StrideMod(n)) % n

FileIdShifted(u) == (u + 1) % nfiles
FileId(u) == u % nfiles

ItemIdNoOffset(m) == m
ItemId(m) == m + nusers

RECURSIVE DotFrom(_, _, _)
DotFrom(a, b, k) ==
  IF k > Len(a) THEN 0 ELSE a[k] * b[k] + DotFrom(a, b, k + 1)

Dot(a, b) == DotFrom(a, b, 1)

RatingNoisy(u, m) == Dot(user_factors[u], movie_factors[m]) + noise
Rating(u, m) == Dot(user_factors[u], movie_factors[m])

FactorLoopCondOffByOne(len) == len <= D
FactorLoopCond(len) == len < D

TrainLoopCondOffByOne == i <= out_degree
TrainLoopCond == i < out_degree

ValidationLoopCond == i < nvalidation

Record(u, m) == <<u, ItemId(m), Rating(u, m)>>

Entry(phase, u, m) == [phase |-> phase, movie |-> m, rec |-> Record(u, m)]

\* ---- the state after the command line has been parsed (line 74) ----
Init ==
  /\ nfiles \in 0..MaxFiles
  /\ D \in 0..MaxD
  /\ nusers \in 0..MaxUsers
  /\ nmovies \in 0..MaxMovies
  /\ nvalidation \in 0..MaxValidation
  /\ noise \in Noises
  /\ stdev \in Stdevs
  /\ alpha \in Alphas
  /\ pc = "mkdir"
  /\ run = 1
  /\ dir_created = FALSE
  /\ opened = {}
  /\ created = {}
  /\ train_files = [k \in 0..(nfiles - 1) |-> <<>>]
  /\ validation_files = [k \in 0..(nfiles - 1) |-> <<>>]
  /\ user_factors = [u \in 0..(nusers - 1) |-> <<>>]
  /\ movie_factors = [m \in 0..(nmovies - 1) |-> <<>>]
  /\ gen = 0
  /\ prob = <<>>
  /\ movie_id = 0
  /\ user_id = 0
  /\ out_degree = 0
  /\ i = 0
  /\ f = 0
  /\ degrees = <<>>
  /\ emitted = <<>>
  /\ draws = <<>>
  /\ prev_train = <<>>
  /\ prev_validation = <<>>
  /\ prev_noise = 0

\* lines 76-81: create_directory; a failure is logged and main() goes on
MakeDirectory ==
  /\ pc = "mkdir"
  /\ dir_created' = TRUE
  /\ i' = 0
  /\ pc' = "open"
  /\ UNCHANGED <<options, noise, run, opened, created, train_files,
                 validation_files, user_factors, movie_factors, gen, prob,
                 movie_id, user_id, out_degree, f, degrees, emitted, draws,
                 previous>>

\* lines 86-102: one iteration opens (and truncates) both files of shard i
OpenFiles ==
  /\ pc = "open"
  /\ i < nfiles
  /\ opened' = opened \cup {<<"train", i>>, <<"validation", i>>}
  /\ created' = created \cup {<<"train", i>>, <<"validation", i>>}
  /\ train_files' = [train_files EXCEPT ![i] = <<>>]
  /\ validation_files' = [validation_files EXCEPT ![i] = <<>>]
  /\ i' = i + 1
  /\ UNCHANGED <<options, noise, pc, run, dir_created, user_factors,
                 movie_factors, gen, prob, movie_id, user_id, out_degree, f,
                 degrees, emitted, draws, previous>>

\* lines 108-111: the factor tables are allocated and the generator seeded
SeedGenerator ==
  /\ pc = "open"
  /\ i >= nfiles
  /\ user_factors' = [u \in 0..(nusers - 1) |-> <<>>]
  /\ movie_factors' = [m \in 0..(nmovies - 1) |-> <<>>]
  /\ gen' = Seed(SeedValue)
  /\ f' = 0
  /\ pc' = "user_factors"
  /\ UNCHANGED <<options, noise, run, dir_created, opened, created,
                 train_files, validation_files, prob, movie_id, user_id,
                 out_degree, i, degrees, emitted, draws, previous>>

\* lines 114-119: one gaussian draw fills one component of user factor f
BuildUserFactors ==
  /\ pc = "user_factors"
  /\ f < nusers
  /\ FactorLoopCond(Len(user_factors[f]))
  /\ LET g == GenNext(gen)
         d == Len(user_factors[f])
     IN  /\ gen' = g
         /\ user_factors' =
              [user_factors EXCEPT ![f] = Append(@, Gaussian(g, stdev))]
         /\ draws' = Append(draws, <<"user", f, d>>)
         /\ f' = IF FactorLoopCond(d + 1) THEN f ELSE f + 1
  /\ UNCHANGED <<options, noise, pc, run, dir_created, opened, created,
                 train_files, validation_files, movie_factors, prob,
                 movie_id, user_id, out_degree, i, degrees, emitted,
                 previous>>

EndUserFactors ==
  /\ pc = "user_factors"
  /\ IF f < nusers THEN ~FactorLoopCond(Len(user_factors[f])) ELSE TRUE
  /\ f' = 0
  /\ pc' = "movie_factors"
  /\ UNCHANGED <<options, noise, run, dir_created, opened, created,
                 train_files, validation_files, user_factors, movie_factors,
                 gen, prob, movie_id, user_id, out_degree, i, degrees,
                 emitted, draws, previous>>

\* lines 122-127: one gaussian draw fills one component of movie factor f
BuildMovieFactors ==
  /\ pc = "movie_factors"
  /\ f < nmovies
  /\ FactorLoopCond(Len(movie_factors[f]))
  /\ LET g == GenNext(gen)
         d == Len(movie_factors[f])
     IN  /\ gen' = g
         /\ movie_factors' =
              [movie_factors EXCEPT ![f] = Append(@, Gaussian(g, stdev))]
         /\ draws' = Append(draws, <<"movie", f, d>>)
         /\ f' = IF FactorLoopCond(d + 1) THEN f ELSE f + 1
  /\ UNCHANGED <<options, noise, pc, run, dir_created, opened, created,
                 train_files, validation_files, user_factors, prob,
                 movie_id, user_id, out_degree, i, degrees, emitted,
                 previous>>

EndMovieFactors ==
  /\ pc = "movie_factors"
  /\ IF f < nmovies THEN ~FactorLoopCond(Len(movie_factors[f])) ELSE TRUE
  /\ pc' = "assert"
  /\ UNCHANGED <<options, noise, run, dir_created, opened, created,
                 train_files, validation_files, user_factors, movie_factors,
                 gen, prob, movie_id, user_id, out_degree, i, f, degrees,
                 emitted, draws, previous>>

\* lines 129-135: the assertion holds, the distribution is built and the
\* loop over the movies is entered with the cursor at 0
BuildDistribution ==
  /\ pc = "assert"
  /\ AssertGT(nusers, nvalidation)
  /\ prob' = Pdf2Cdf(nusers - nvalidation, alpha)
  /\ movie_id' = 0
  /\ user_id' = 0
  /\ pc' = "movies"
  /\ UNCHANGED <<options, noise, run, dir_created, opened, created,
                 train_files, validation_files, user_factors, movie_factors,
                 gen, out_degree, i, f, degrees, emitted, draws, previous>>

\* line 129: the assertion fails and the process aborts
AssertFails ==
  /\ pc = "assert"
  /\ ~AssertGT(nusers, nvalidation)
  /\ pc' = "aborted"
  /\ UNCHANGED <<options, noise, run, dir_created, opened, created,
                 train_files, validation_files, user_factors, movie_factors,
                 gen, prob, movie_id, user_id, out_degree, i, f, degrees,
                 emitted, draws, previous>>

\* the same step with the cursor declared inside the loop body
DrawDegreeResetCursor ==
  /\ pc = "movies"
  /\ movie_id < nmovies
  /\ LET g == GenNext(gen)
     IN  /\ gen' = g
         /\ out_degree' = MultinomialCdf(g, prob) + 1
         /\ degrees' = Append(degrees, MultinomialCdf(g, prob) + 1)
         /\ draws' = Append(draws, <<"degree", movie_id>>)
  /\ i' = 0
  /\ user_id' = 0
  /\ pc' = "train"
  /\ UNCHANGED <<options, noise, run, dir_created, opened, created,
                 train_files, validation_files, user_factors, movie_factors,
                 prob, movie_id, f, emitted, previous>>

\* lines 135-137: the next movie's out degree is drawn
DrawDegree ==
  /\ pc = "movies"
  /\ movie_id < nmovies
  /\ LET g == GenNext(gen)
     IN  /\ gen' = g
         /\ out_degree' = MultinomialCdf(g, prob) + 1
         /\ degrees' = Append(degrees, MultinomialCdf(g, prob) + 1)
         /\ draws' = Append(draws, <<"degree", movie_id>>)
  /\ i' = 0
  /\ pc' = "train"
  /\ UNCHANGED <<options, noise, run, dir_created, opened, created,
                 train_files, validation_files, user_factors, movie_factors,
                 prob, movie_id, user_id, f, emitted, previous>>

\* lines 138-145: one training record
EmitTrain ==
  /\ pc = "train"
  /\ TrainLoopCond
  /\ nusers > 0 /\ nfiles > 0
  /\ LET u == AdvanceCursor(user_id, nusers)
     IN  /\ user_id' = u
         /\ train_files' =
              [train_files EXCEPT ![FileId(u)] = Append(@, Record(u, movie_id))]
         /\ emitted' = Append(emitted, Entry("train", u, movie_id))
  /\ i' = i + 1
  /\ UNCHANGED <<options, noise, pc, run, dir_created, opened, created,
                 validation_files, user_factors, movie_factors, gen, prob,
                 movie_id, out_degree, f, degrees, draws, previous>>

EndTrain ==
  /\ pc = "train"
  /\ ~TrainLoopCond
  /\ i' = 0
  /\ pc' = "validation"
  /\ UNCHANGED <<options, noise, run, dir_created, opened, created,
                 train_files, validation_files, user_factors, movie_factors,
                 gen, prob, movie_id, user_id, out_degree, f, degrees,
                 emitted, draws, previous>>

\* lines 147-154: one validation record
EmitValidation ==
  /\ pc = "validation"
  /\ ValidationLoopCond
  /\ nusers > 0 /\ nfiles > 0
  /\ LET u == AdvanceCursor(user_id, nusers)
     IN  /\ user_id' = u
         /\ validation_files' =
              [validation_files EXCEPT
                 ![FileId(u)] = Append(@, Record(u, movie_id))]
         /\ emitted' = Append(emitted, Entry("validation", u, movie_id))
  /\ i' = i + 1
  /\ UNCHANGED <<options, noise, pc, run, dir_created, opened, created,
                 train_files, user_factors, movie_factors, gen, prob,
                 movie_id, out_degree, f, degrees, draws, previous>>

\* line 135: ++movie_id
NextMovie ==
  /\ pc = "validation"
  /\ ~ValidationLoopCond
  /\ movie_id' = movie_id + 1
  /\ pc' = "movies"
  /\ UNCHANGED <<options, noise, run, dir_created, opened, created,
                 train_files, validation_files, user_factors, movie_factors,
                 gen, prob, user_id, out_degree, i, f, degrees, emitted,
                 draws, previous>>

\* lines 139-140: a remainder by zero (nfiles = 0) ends the process
DivideByZero ==
  /\ IF pc = "train" THEN TrainLoopCond
     ELSE pc = "validation" /\ ValidationLoopCond
  /\ IF nusers = 0 THEN TRUE ELSE nfiles = 0
  /\ pc' = "crashed"
  /\ UNCHANGED <<options, noise, run, dir_created, opened, created,
                 train_files, validation_files, user_factors, movie_factors,
                 gen, prob, movie_id, user_id, out_degree, i, f, degrees,
                 emitted, draws, previous>>

\* line 135: the loop over the movies ends
EndMovies ==
  /\ pc = "movies"
  /\ movie_id >= nmovies
  /\ i' = 0
  /\ pc' = "close"
  /\ UNCHANGED <<options, noise, run, dir_created, opened, created,
                 train_files, validation_files, user_factors, movie_factors,
                 gen, prob, movie_id, user_id, out_degree, f, degrees,
                 emitted, draws, previous>>

\* lines 156-161: one iteration closes both streams of shard i
CloseFiles ==
  /\ pc = "close"
  /\ i < nfiles
  /\ opened' = opened \ {<<"train", i>>, <<"validation", i>>}
  /\ i' = i + 1
  /\ UNCHANGED <<options, noise, pc, run, dir_created, created, train_files,
                 validation_files, user_factors, movie_factors, gen, prob,
                 movie_id, user_id, out_degree, f, degrees, emitted, draws,
                 previous>>

\* line 165: main() returns
Finish ==
  /\ pc = "close"
  /\ i >= nfiles
  /\ pc' = "done"
  /\ UNCHANGED <<options, noise, run, dir_created, opened, created,
                 train_files, validation_files, user_factors, movie_factors,
                 gen, prob, movie_id, user_id, out_degree, i, f, degrees,
                 emitted, draws, previous>>

\* the program is executed once more with the same options, except possibly
\* for noise; the files of the first run are kept aside for comparison and
\* the new process starts without any stream
Rerun ==
  /\ pc = "done"
  /\ run = 1
  /\ run' = 2
  /\ prev_train' = train_files
  /\ prev_validation' = validation_files
  /\ prev_noise' = noise
  /\ noise' \in Noises
  /\ pc' = "mkdir"
  /\ dir_created' = FALSE
  /\ opened' = {}
  /\ created' = {}
  /\ user_factors' = [u \in 0..(nusers - 1) |-> <<>>]
  /\ movie_factors' = [m \in 0..(nmovies - 1) |-> <<>>]
  /\ gen' = 0
  /\ prob' = <<>>
  /\ movie_id' = 0
  /\ user_id' = 0
  /\ out_degree' = 0
  /\ i' = 0
  /\ f' = 0
  /\ degrees' = <<>>
  /\ emitted' = <<>>
  /\ draws' = <<>>
  /\ train_files' = [k \in 0..(nfiles - 1) |-> <<>>]
  /\ validation_files' = [k \in 0..(nfiles - 1) |-> <<>>]
  /\ UNCHANGED options

Next ==
  \/ MakeDirectory
  \/ OpenFiles
  \/ SeedGenerator
  \/ BuildUserFactors
  \/ EndUserFactors
  \/ BuildMovieFactors
  \/ EndMovieFactors
  \/ BuildDistribution
  \/ AssertFails
  \/ DrawDegree
  \/ EmitTrain
  \/ EndTrain
  \/ EmitValidation
  \/ NextMovie
  \/ DivideByZero
  \/ EndMovies
  \/ CloseFiles
  \/ Finish
  \/ Rerun

Spec == Init /\ [][Next]_vars

\* ---- helpers of the properties ----
RECURSIVE SumSeq(_)
SumSeq(q) == IF q = <<>> THEN 0 ELSE Head(q) + SumSeq(Tail(q))

RECURSIVE TotalLen(_, _)
TotalLen(files, k) ==
  IF k < 0 THEN 0 ELSE Len(files[k]) + TotalLen(files, k - 1)

Shards == 0..(nfiles - 1)

EntriesOf(phase, m) ==
  {n \in DOMAIN emitted : emitted[n].phase = phase /\ emitted[n].movie = m}

Routed(phase, k) ==
  LET sel == SelectSeq(emitted,
               LAMBDA e : e.phase = phase /\ e.rec[1] % nfiles = k)
  IN  [n \in 1..Len(sel) |-> sel[n].rec]

AllShardFiles == {<<"train", k>> : k \in Shards} \cup
                 {<<"validation", k>> : k \in Shards}

BeforeGeneration ==
  pc \in {"mkdir", "open", "user_factors", "movie_factors", "assert",
          "aborted"}

\* ---- C1 ----
\* C1 as stated: whenever nusers <= nvalidation, no output directory and no
\* shard file has been created or opened.
C1_NoFileBeforeCheck ==
  nusers <= nvalidation => (~dir_created /\ created = {} /\ opened = {})

\* C1 as amended: with nusers <= nvalidation the run never gets past the
\* ASSERT_GT of line 129: no degree is drawn and no record is inserted into
\* any shard, and every run that aborts has such a configuration; but the
\* abort comes after the directory creation, after all 2 * nfiles shard
\* files have been created and after all the factor components are drawn.
C1_AbortsBeforeAnyRecord ==
  /\ nusers <= nvalidation =>
       /\ BeforeGeneration
       /\ emitted = <<>> /\ degrees = <<>>
       /\ \A k \in Shards : train_files[k] = <<>> /\ validation_files[k] = <<>>
  /\ pc = "aborted" =>
       /\ nusers <= nvalidation
       /\ dir_created
       /\ created = AllShardFiles
       /\ Len(draws) = (nusers + nmovies) * D

C1_Witness == pc = "aborted" /\ nfiles >= 2 /\ Cardinality(created) >= 4

\* ---- C2 ----
\* C2: the movies are processed in order, each finished movie has exactly
\* its sampled out_degree training records and exactly nvalidation
\* validation records; at the end the shards hold SumSeq(degrees) training
\* records and nmovies * nvalidation validation records (none at all when
\* nvalidation = 0, while the training records are still there).
C2_RecordCounts ==
  /\ Len(degrees) <= nmovies
  /\ \A m \in 0..(nmovies - 1) :
       /\ m < movie_id =>
            /\ m + 1 <= Len(degrees)
            /\ Cardinality(EntriesOf("train", m)) = degrees[m + 1]
            /\ Cardinality(EntriesOf("validation", m)) = nvalidation
       /\ m > movie_id =>
            EntriesOf("train", m) \cup EntriesOf("validation", m) = {}
  /\ \A a, b \in DOMAIN emitted :
       a < b =>
         /\ emitted[a].movie <= emitted[b].movie
         /\ (emitted[a].movie = emitted[b].movie
               /\ emitted[a].phase = "validation")
              => emitted[b].phase = "validation"
  /\ TotalLen(train_files, nfiles - 1) + TotalLen(validation_files, nfiles - 1)
       = Len(emitted)
  /\ pc = "done" =>
       /\ movie_id = nmovies
       /\ Len(degrees) = nmovies
       /\ TotalLen(train_files, nfiles - 1) = SumSeq(degrees)
       /\ TotalLen(validation_files, nfiles - 1) = nmovies * nvalidation
       /\ nvalidation = 0 =>
            /\ \A k \in Shards : validation_files[k] = <<>>
            /\ TotalLen(train_files, nfiles - 1) >= nmovies

C2_Witness ==
  /\ pc = "done"
  /\ nmovies >= 2 /\ nvalidation >= 1
  /\ \E k \in DOMAIN degrees : degrees[k] >= 2

\* ---- C3 ----
\* C3: training shard k holds exactly the records the training loop emitted
\* for the users u with u mod nfiles = k, in emission order, and validation
\* shard k holds exactly those of the validation loop.
C3_ShardRouting ==
  \A k \in Shards :
    /\ train_files[k] = Routed("train", k)
    /\ validation_files[k] = Routed("validation", k)

C3_Witness ==
  /\ nfiles >= 2
  /\ train_files[0] # <<>> /\ train_files[1] # <<>>
  /\ validation_files[1] # <<>>

\* ---- C4 ----
\* C4: every record emitted for movie m carries item id m + nusers and a
\* user id in 0..nusers-1, so that in every shard the user ids lie below
\* nusers and the item ids in nusers..nusers+nmovies-1.
C4_DisjointIds ==
  /\ \A n \in DOMAIN emitted :
       /\ emitted[n].rec[2] = emitted[n].movie + nusers
       /\ emitted[n].rec[1] \in 0..(nusers - 1)
  /\ \A k \in Shards :
       /\ \A n \in DOMAIN train_files[k] :
            /\ train_files[k][n][1] < nusers
            /\ train_files[k][n][2] \in nusers..(nusers + nmovies - 1)
       /\ \A n \in DOMAIN validation_files[k] :
            /\ validation_files[k][n][1] < nusers
            /\ validation_files[k][n][2] \in nusers..(nusers + nmovies - 1)

C4_Witness ==
  \E n \in DOMAIN emitted :
    emitted[n].movie >= 1 /\ emitted[n].phase = "validation"

\* ---- C5 ----
RatingsAreDotProducts ==
  \A n \in DOMAIN emitted :
    emitted[n].rec[3] =
      Dot(user_factors[emitted[n].rec[1]], movie_factors[emitted[n].movie])

NoiseIrrelevant ==
  (run = 2 /\ pc = "done" /\ noise # prev_noise) =>
    (train_files = prev_train /\ validation_files = prev_validation)

FactorsFrozen ==
  pc \in {"assert", "movies", "train", "validation", "close"} =>
    UNCHANGED <<user_factors, movie_factors>>

\* C5: every emitted rating is the dot product of the stored user factor and
\* the stored movie factor, the factor tables do not change once they are
\* built, and a run that differs from another one only in noise yields the
\* same files.
C5_RatingIsDotProduct ==
  /\ [](RatingsAreDotProducts /\ NoiseIrrelevant)
  /\ [][FactorsFrozen]_vars

C5_Witness ==
  /\ run = 2 /\ pc = "done" /\ noise # prev_noise
  /\ \E n \in DOMAIN emitted : emitted[n].rec[3] # 0

\* ---- C6 ----
\* C6: a second run with the same seed and the same options ends with the
\* same sequence of records in every training and every validation shard.
C6_Deterministic ==
  (run = 2 /\ pc = "done" /\ noise = prev_noise) =>
    (train_files = prev_train /\ validation_files = prev_validation)

C6_Witness ==
  /\ run = 2 /\ pc = "done" /\ noise = prev_noise
  /\ nfiles >= 2 /\ Len(emitted) >= 3
  /\ \E n \in DOMAIN emitted : emitted[n].rec[3] # 0

\* ---- C7 ----
ExpectedDraws ==
  [k \in 1..((nusers + nmovies) * D + nmovies) |->
     IF k <= nusers * D
       THEN <<"user", (k - 1) \div D, (k - 1) % D>>
     ELSE IF k <= (nusers + nmovies) * D
       THEN <<"movie", (k - 1 - nusers * D) \div D, (k - 1 - nusers * D) % D>>
     ELSE <<"degree", k - 1 - (nusers + nmovies) * D>>]

DrawOrder ==
  /\ Len(draws) <= Len(ExpectedDraws)
  /\ \A k \in DOMAIN draws : draws[k] = ExpectedDraws[k]
  /\ \A n \in DOMAIN emitted :
       \E k \in DOMAIN draws : draws[k] = <<"degree", emitted[n].movie>>
  /\ pc = "done" => Len(draws) = (nusers + nmovies) * D + nmovies

EmitDrawsNothing ==
  Len(emitted') > Len(emitted) => (draws' = draws /\ gen' = gen)

\* C7: the draws are all the user factor components, then all the movie
\* factor components, then one degree per movie, drawn before any record of
\* that movie; emitting a record draws nothing; a complete run makes
\* (nusers + nmovies) * D + nmovies draws.
C7_DrawOrder == []DrawOrder /\ [][EmitDrawsNothing]_vars

C7_Witness ==
  /\ pc = "done"
  /\ D >= 1 /\ nusers >= 2 /\ nmovies >= 2
  /\ Len(emitted) >= 3

\* ---- C8 ----
\* C8: after a complete run over at least one movie every user has exactly
\* nvalidation validation records across the validation shards.
C8_PerUserValidationCount ==
  (pc = "done" /\ nmovies >= 1) =>
    \A u \in 0..(nusers - 1) :
      Cardinality({n \in DOMAIN emitted :
                     emitted[n].phase = "validation" /\ emitted[n].rec[1] = u})
        = nvalidation

\* ---- C9 ----
CursorFollowsStride ==
  /\ \A n \in DOMAIN emitted :
       emitted[n].rec[1] = (n * StrideMod(nusers)) % nusers
  /\ (pc \in {"movies", "train", "validation", "close", "done"} /\ nusers > 0)
       => user_id = (Len(emitted) * StrideMod(nusers)) % nusers

CursorMovesOnlyOnEmit ==
  user_id' # user_id =>
    \/ Len(emitted') = Len(emitted) + 1
    \/ pc = "done" /\ pc' = "mkdir"

\* C9: the cursor starts at 0, moves by the stride exactly once per emitted
\* record and never otherwise, so the n-th record of a run (training and
\* validation together) has user id (n * 2654435761) mod nusers.
C9_SingleCursor == []CursorFollowsStride /\ [][CursorMovesOnlyOnEmit]_vars

C9_Witness ==
  /\ nusers >= 3
  /\ Len(emitted) >= 4
  /\ emitted[Len(emitted)].movie >= 1
  /\ emitted[Len(emitted)].phase = "train"
  /\ emitted[1].rec[1] # emitted[Len(emitted)].rec[1]

\* ---- C10 ----
\* C10: every sampled degree lies in 1..nusers-nvalidation, and the records
\* emitted for one movie (training and validation together) have pairwise
\* distinct user ids.  (Every nusers within the bounds is below 2654435761.)
C10_DistinctUsersPerItem ==
  /\ \A k \in DOMAIN degrees : degrees[k] \in 1..(nusers - nvalidation)
  /\ \A a, b \in DOMAIN emitted :
       (a # b /\ emitted[a].movie = emitted[b].movie)
         => emitted[a].rec[1] # emitted[b].rec[1]

C10_Witness ==
  /\ nusers >= 3 /\ nvalidation >= 1
  /\ pc = "movies"
  /\ \E m \in 0..(nmovies - 1) :
       Cardinality(EntriesOf("train", m) \cup EntriesOf("validation", m))
         = nusers

====
